---- MODULE Spec2Model ----
(***************************************************************************)
(* A model of the KuCoin WebSocket session of src/src/kucoin/client.rs:    *)
(* the caller's Session::start, the ping thread (spawn_ping_loop), the     *)
(* receive thread (spawn_recv_loop), the Mutex around the connection, the  *)
(* pong side channel, the topic registry and the frame parser of api.rs    *)
(* and book.rs.                                                            *)
(***************************************************************************)
EXTENDS Naturals, Sequences, FiniteSets, TLC

\* ------------------------------------------------------------ bounds
\* frames the server delivers in one session (the Welcome included)
MaxFrames == 3
\* pings the ping thread starts in one session
MaxPings == 2
\* the clock ticks counted since send_time; later ticks change nothing, as
\* every duration of Durations has passed by then
MaxElapsed == 2
\* the levels of a side given to get_asks_bids on its own
MaxLevels == 6

\* ------------------------------------------------------------ JSON values
\* serde_json::Value as the parser sees it: a tagged value.  JAbsent is the
\* result of get(key) on an object without the key.
JAbsent == [t |-> "absent"]
JStr(s) == [t |-> "str", v |-> s]
JInt(n) == [t |-> "int", v |-> n]
JArr(seq) == [t |-> "arr", v |-> seq]
JObj(asks, bids) == [t |-> "obj", asks |-> asks, bids |-> bids]

\* MarketBook holds [(f64, i64); 5]
Depth == 5

Symbols == {"ETHUSDTM", "XBTUSDTM"}

\* the ping_interval and ping_timeout a Credentials may carry, in clock ticks
Durations == {1, 2}

\* api.rs level2_subscription_string: (subscribe frame, topic)
level2_subscription_string(symbol) ==
    LET topic == "/contractMarket/level2Depth5:" \o symbol
    IN  << [type |-> "subscribe", id |-> JInt(1), topic |-> topic], topic >>

\* u64::to_string: the decimal digits of n, most significant first
Digit(d) == <<"0", "1", "2", "3", "4", "5", "6", "7", "8", "9">>[d + 1]

RECURSIVE to_string(_)
to_string(n) == IF n < 10 THEN Digit(n) ELSE to_string(n \div 10) \o Digit(n % 10)

\* api.rs ping_string: the ping frame carrying id
ping_string(id_str) == [type |-> "ping", id |-> JStr(id_str), topic |-> ""]

\* ------------------------------------------------------------ order book
\* str::parse::<f64> on the price strings the model's payloads use; the
\* value is kept in tenths.  A string that is no float has no entry.
PriceTable ==
    { <<"100", 1000>>, <<"100.5", 1005>>, <<"101", 1010>>, <<"99.5", 995>> }

ParsesAsF64(s) == \E e \in PriceTable : e[1] = s

ParseF64(s) == (CHOOSE e \in PriceTable : e[1] = s)[2]

\* one level [price, size] of the wire decodes when price is a string that
\* parses as a float and size is an integer
LevelOk(x) ==
    /\ x.t = "arr"
    /\ Len(x.v) >= 2
    /\ x.v[1].t = "str" /\ ParsesAsF64(x.v[1].v)
    /\ x.v[2].t = "int"

Sentinel == [price |-> 0, size |-> 0]

Panic == [kind |-> "Panic"]

\* a decoder that fills the ladder from the last level of the side backwards
get_asks_bids_reversed(data) ==
    IF data.t # "arr" THEN Panic
    ELSE IF \E i \in 1..Len(data.v) : ~LevelOk(data.v[i]) THEN Panic
    ELSE IF Len(data.v) > Depth THEN Panic
    ELSE [kind |-> "Ok",
          val  |-> [i \in 1..Depth |->
                       IF i <= Len(data.v)
                       THEN [price |-> ParseF64(data.v[Len(data.v) + 1 - i].v[1].v),
                             size  |-> data.v[Len(data.v) + 1 - i].v[2].v]
                       ELSE Sentinel]]

\* book.rs MarketBook::get_asks_bids: the closure panics on a malformed
\* level, and res[i] = x panics for i >= 5 (index out of bounds)
get_asks_bids(data) ==
    IF data.t # "arr" THEN Panic
    ELSE IF \E i \in 1..Len(data.v) : ~LevelOk(data.v[i]) THEN Panic
    ELSE IF Len(data.v) > Depth THEN Panic
    ELSE [kind |-> "Ok",
          val  |-> [i \in 1..Depth |->
                       IF i <= Len(data.v)
                       THEN [price |-> ParseF64(data.v[i].v[1].v),
                             size  |-> data.v[i].v[2].v]
                       ELSE Sentinel]]

KeyNotExists == [kind |-> "Err", err |-> "KeyNotExists"]

\* book.rs MarketBook::new: Err(KeyNotExists) for a missing key, a panic for
\* a topic that is not a string or a side that does not decode
MarketBook_new(msg) ==
    IF msg.topic.t = "absent" THEN KeyNotExists
    ELSE IF msg.topic.t # "str" THEN Panic
    ELSE IF msg.data.t = "absent" THEN KeyNotExists
    ELSE IF msg.data.t # "obj" THEN KeyNotExists
    ELSE IF msg.data.asks.t = "absent" THEN KeyNotExists
    ELSE IF msg.data.bids.t = "absent" THEN KeyNotExists
    ELSE LET asks == get_asks_bids(msg.data.asks)
             bids == get_asks_bids(msg.data.bids)
         IN  IF asks.kind = "Panic" \/ bids.kind = "Panic" THEN Panic
             ELSE [kind  |-> "Ok",
                   book  |-> [asks |-> asks.val, bids |-> bids.val],
                   topic |-> msg.topic.v]

\* ------------------------------------------------------------ frames
\* An inbound frame as tungstenite hands it over: text says that into_text
\* succeeds, json that serde_json::from_str succeeds; the other fields are
\* the keys of the JSON object.
Frame(type, id, topic, data) ==
    [text |-> TRUE, json |-> TRUE, type |-> type, id |-> id, topic |-> topic,
     data |-> data]

NotText ==
    [text |-> FALSE, json |-> FALSE, type |-> JAbsent, id |-> JAbsent,
     topic |-> JAbsent, data |-> JAbsent]

BadJson ==
    [text |-> TRUE, json |-> FALSE, type |-> JAbsent, id |-> JAbsent,
     topic |-> JAbsent, data |-> JAbsent]

Level(price, size) == JArr(<< JStr(price), JInt(size) >>)

\* two ask levels and one bid level
ShallowBook ==
    JObj(JArr(<< Level("100.5", 10), Level("101", 5) >>),
         JArr(<< Level("100", 7) >>))

\* one ask level and no bid level
ThinBook == JObj(JArr(<< Level("99.5", 7) >>), JArr(<< >>))

\* six ask levels: one more than a MarketBook holds
DeepBook ==
    JObj(JArr(<< Level("100", 1), Level("100", 2), Level("100.5", 3),
                 Level("100.5", 4), Level("101", 5), Level("101", 6) >>),
         JArr(<< Level("99.5", 7) >>))

DataFrame(topic, data) == Frame(JStr("message"), JAbsent, JStr(topic), data)

\* the frames the server may deliver
Frames ==
    { NotText, BadJson,
      Frame(JAbsent, JAbsent, JAbsent, JAbsent),
      Frame(JStr("error"), JStr("1"), JAbsent, JAbsent),
      Frame(JStr("welcome"), JStr("w"), JAbsent, JAbsent),
      Frame(JStr("ack"), JStr("1"), JAbsent, JAbsent),
      Frame(JStr("pong"), JStr("0"), JAbsent, JAbsent),
      Frame(JStr("pong"), JStr("1"), JAbsent, JAbsent),
      DataFrame("/contractMarket/level2Depth5:ETHUSDTM", ShallowBook),
      DataFrame("/contractMarket/level2Depth5:ETHUSDTM", ThinBook),
      DataFrame("/contractMarket/level2Depth5:XBTUSDTM", ShallowBook),
      DataFrame("/contractMarket/level2Depth5:ETHUSDTM", DeepBook) }

\* what net_client.read() hands to WebSocket::recv: a frame, or an error of
\* the connection
ReadOk(f) == [ok |-> TRUE, frame |-> f]
ReadFailed == [ok |-> FALSE, frame |-> NotText]

\* api.rs Message::from_string
from_string(f) ==
    IF ~f.json THEN [kind |-> "Err", err |-> "ParseError"]
    ELSE IF f.type.t # "str" THEN Panic
    ELSE IF f.type.v = "welcome" THEN [kind |-> "Ok", msg |-> "Welcome"]
    ELSE IF f.type.v = "ack"
         THEN IF f.id.t = "str" THEN [kind |-> "Ok", msg |-> "Ack", id |-> f.id.v]
              ELSE Panic
    ELSE IF f.type.v = "pong"
         THEN IF f.id.t = "str" THEN [kind |-> "Ok", msg |-> "Pong", id |-> f.id.v]
              ELSE Panic
    ELSE IF f.type.v = "message" THEN [kind |-> "Ok", msg |-> "Message", value |-> f]
    ELSE Panic

\* client.rs WebSocket::recv then Session::recv: read()?.into_text()? and
\* from_string(..)?, the errors converted into RecvError
Session_recv(r) ==
    IF ~r.ok \/ ~r.frame.text THEN [kind |-> "Err", err |-> "NetworkError"]
    ELSE from_string(r.frame)

\* a subtraction with its operands taken the other way round
duration_substract_swapped(a, b) == IF b <= a THEN 0 ELSE b - a

\* client.rs duration_substract
duration_substract(a, b) == IF a <= b THEN 0 ELSE a - b

\* ------------------------------------------------------------ state
VARIABLES
    pc,            \* where each thread is: caller (Session::start and after), ping, recv
    net_client,    \* WebSocket.net_client: the thread holding the Mutex, or "free"
    conn_ok,       \* the connection is up; once down, reads and writes fail
    wire_out,      \* the frames written to the connection, in order
    wire_in,       \* the frames read from the connection, in order
    readers,       \* readers[i] is the thread that read wire_in[i]
    data,          \* Session.data: topic -> index of its channel in chans
    chans,         \* the MarketBook channels: the books sent, and whether the Receiver lives
    holders,       \* the threads holding a clone of the Session (the Arcs)
    pong_tx,       \* the owner of pong_send
    pong_rx,       \* the owner of pong_recv
    pong_q,        \* the ids in the pong channel
    id,            \* spawn_ping_loop: id
    elapsed,       \* spawn_ping_loop: send_time.elapsed(), in clock ticks
    last_wait,     \* the result of the last recv_timeout since the last ping
    last_recv,     \* what the last iteration of the recv loop matched
    level2_symbol, \* the argument of Session::start
    ping_interval, \* credentials.ping_interval
    ping_timeout,  \* credentials.ping_timeout
    pongs_seen,    \* the ids recv_timeout has handed to the ping thread, in order
    book_in,       \* a side (asks or bids) of a payload given to get_asks_bids
    book_out       \* what get_asks_bids made of book_in

vars ==
    << pc, net_client, conn_ok, wire_out, wire_in, readers, data, chans, holders,
       pong_tx, pong_rx, pong_q, id, elapsed, last_wait, last_recv, level2_symbol,
       ping_interval, ping_timeout, pongs_seen, book_in, book_out >>

Threads == {"caller", "ping", "recv"}

Init ==
    /\ pc = [t \in Threads |-> IF t = "caller" THEN "start" ELSE "unborn"]
    /\ net_client = "free"
    /\ conn_ok = FALSE
    /\ wire_out = << >>
    /\ wire_in = << >>
    /\ readers = << >>
    /\ data = << >>
    /\ chans = << >>
    /\ holders = {}
    /\ pong_tx = "none"
    /\ pong_rx = "none"
    /\ pong_q = << >>
    /\ id = 0
    /\ elapsed = 0
    /\ last_wait = "none"
    /\ last_recv = "none"
    /\ level2_symbol \in Symbols
    /\ ping_interval \in Durations
    /\ ping_timeout \in Durations
    /\ pongs_seen = << >>
    /\ book_in = << >>
    /\ book_out = [kind |-> "none"]

\* a lock that never makes a thread wait
CanLockAlways == TRUE

\* Mutex::lock returns once no thread holds the guard
CanLock == net_client = "free"

\* the Senders of the registry live as long as some clone of the Session does
Closed(c) == holders = {}

\* the server delivers a frame of Frames, or the connection is down
ReadResults ==
    IF conn_ok THEN IF Len(wire_in) < MaxFrames THEN {ReadOk(f) : f \in Frames} ELSE {}
    ELSE {ReadFailed}

Read(t, r) ==
    /\ wire_in' = IF r.ok THEN Append(wire_in, r.frame) ELSE wire_in
    /\ readers' = IF r.ok THEN Append(readers, t) ELSE readers
    /\ net_client' = "free"

\* ------------------------------------------------------------ Session::start
\* line 59: WebSocket::new(..)? ; lines 60-65: the pong channel, the Session
StartConnect ==
    /\ pc["caller"] = "start"
    /\ \/ /\ conn_ok' = TRUE
          /\ holders' = {"caller"}
          /\ pong_tx' = "caller"
          /\ pong_rx' = "caller"
          /\ pc' = [pc EXCEPT !["caller"] = "hs_lock"]
       \/ /\ pc' = [pc EXCEPT !["caller"] = "err"]
          /\ UNCHANGED << conn_ok, holders, pong_tx, pong_rx >>
    /\ UNCHANGED << net_client, wire_out, wire_in, readers, data, chans, pong_q, id,
                    elapsed, last_wait, last_recv, level2_symbol, ping_interval,
                    ping_timeout, pongs_seen, book_in, book_out >>

\* line 67, WebSocket::recv: net_client.lock()
StartHandshakeLock ==
    /\ pc["caller"] = "hs_lock"
    /\ CanLock
    /\ net_client' = "caller"
    /\ pc' = [pc EXCEPT !["caller"] = "hs_read"]
    /\ UNCHANGED << conn_ok, wire_out, wire_in, readers, data, chans, holders, pong_tx,
                    pong_rx, pong_q, id, elapsed, last_wait, last_recv, level2_symbol,
                    ping_interval, ping_timeout, pongs_seen, book_in, book_out >>

\* lines 67-70: session.recv().expect(..), and the match on the message:
\* anything but Ok(Welcome) panics, which drops the Session and the channel
StartHandshakeRead ==
    /\ pc["caller"] = "hs_read"
    /\ \E r \in ReadResults :
          /\ Read("caller", r)
          /\ LET m == Session_recv(r)
             IN  IF m.kind = "Ok" /\ m.msg = "Welcome"
                 THEN /\ pc' = [pc EXCEPT !["caller"] = "spawn_ping"]
                      /\ UNCHANGED << holders, pong_tx, pong_rx >>
                 ELSE /\ pc' = [pc EXCEPT !["caller"] = "panicked"]
                      /\ holders' = holders \ {"caller"}
                      /\ pong_tx' = "dropped"
                      /\ pong_rx' = "dropped"
    /\ UNCHANGED << conn_ok, wire_out, data, chans, pong_q, id, elapsed, last_wait,
                    last_recv, level2_symbol, ping_interval, ping_timeout, pongs_seen,
                    book_in, book_out >>

\* lines 72-76 and 91-102: spawn_ping_loop clones the Session, sets id = 0
\* and spawns the thread, which owns pong_recv
StartSpawnPing ==
    /\ pc["caller"] = "spawn_ping"
    /\ pc' = [pc EXCEPT !["caller"] = "subscribe", !["ping"] = "send_lock"]
    /\ holders' = holders \cup {"ping"}
    /\ pong_rx' = "ping"
    /\ id' = 0
    /\ UNCHANGED << net_client, conn_ok, wire_out, wire_in, readers, data, chans,
                    pong_tx, pong_q, elapsed, last_wait, last_recv, level2_symbol,
                    ping_interval, ping_timeout, pongs_seen, book_in, book_out >>

\* a subscribe that makes the channel and sends without the insert
StartSubscribeNoInsert ==
    /\ pc["caller"] = "subscribe"
    /\ chans' = Append(chans, [q |-> << >>, rx |-> TRUE])
    /\ pc' = [pc EXCEPT !["caller"] = "sub_lock"]
    /\ UNCHANGED << net_client, conn_ok, wire_out, wire_in, readers, data, holders,
                    pong_tx, pong_rx, pong_q, id, elapsed, last_wait, last_recv,
                    level2_symbol, ping_interval, ping_timeout, pongs_seen, book_in,
                    book_out >>

\* lines 170-173, subscribe_level2: a new channel, its Sender inserted under
\* the topic
StartSubscribe ==
    /\ pc["caller"] = "subscribe"
    /\ LET topic == level2_subscription_string(level2_symbol)[2]
       IN  /\ chans' = Append(chans, [q |-> << >>, rx |-> TRUE])
           /\ data' = (topic :> (Len(chans) + 1)) @@ data
    /\ pc' = [pc EXCEPT !["caller"] = "sub_lock"]
    /\ UNCHANGED << net_client, conn_ok, wire_out, wire_in, readers, holders, pong_tx,
                    pong_rx, pong_q, id, elapsed, last_wait, last_recv, level2_symbol,
                    ping_interval, ping_timeout, pongs_seen, book_in, book_out >>

\* line 175, WebSocket::send: net_client.lock()
StartSubscribeLock ==
    /\ pc["caller"] = "sub_lock"
    /\ CanLock
    /\ net_client' = "caller"
    /\ pc' = [pc EXCEPT !["caller"] = "sub_write"]
    /\ UNCHANGED << conn_ok, wire_out, wire_in, readers, data, chans, holders, pong_tx,
                    pong_rx, pong_q, id, elapsed, last_wait, last_recv, level2_symbol,
                    ping_interval, ping_timeout, pongs_seen, book_in, book_out >>

\* a subscribe that takes the entry out of the table when its send fails
StartSubscribeWriteRollback ==
    /\ pc["caller"] = "sub_write"
    /\ net_client' = "free"
    /\ IF conn_ok
       THEN /\ wire_out' = Append(wire_out, level2_subscription_string(level2_symbol)[1])
            /\ pc' = [pc EXCEPT !["caller"] = "spawn_recv"]
            /\ UNCHANGED << data, chans, holders, pong_tx >>
       ELSE /\ pc' = [pc EXCEPT !["caller"] = "panicked"]
            /\ data' = << >>
            /\ chans' = [c \in DOMAIN chans |-> [chans[c] EXCEPT !.rx = FALSE]]
            /\ holders' = holders \ {"caller"}
            /\ pong_tx' = "dropped"
            /\ UNCHANGED wire_out
    /\ UNCHANGED << conn_ok, wire_in, readers, pong_rx, pong_q, id, elapsed,
                    last_wait, last_recv, level2_symbol, ping_interval, ping_timeout,
                    pongs_seen, book_in, book_out >>

\* line 175: net_client.send(msg), and expect("Subscribe failed"): the
\* panic drops the receiver, the Session and pong_send
StartSubscribeWrite ==
    /\ pc["caller"] = "sub_write"
    /\ net_client' = "free"
    /\ IF conn_ok
       THEN /\ wire_out' = Append(wire_out, level2_subscription_string(level2_symbol)[1])
            /\ pc' = [pc EXCEPT !["caller"] = "spawn_recv"]
            /\ UNCHANGED << chans, holders, pong_tx >>
       ELSE /\ pc' = [pc EXCEPT !["caller"] = "panicked"]
            /\ chans' = [c \in DOMAIN chans |-> [chans[c] EXCEPT !.rx = FALSE]]
            /\ holders' = holders \ {"caller"}
            /\ pong_tx' = "dropped"
            /\ UNCHANGED wire_out
    /\ UNCHANGED << conn_ok, wire_in, readers, data, pong_rx, pong_q, id, elapsed,
                    last_wait, last_recv, level2_symbol, ping_interval, ping_timeout,
                    pongs_seen, book_in, book_out >>

\* the receive thread spawned before the handshake read
StartSpawnRecvEarly ==
    /\ pc["caller"] = "hs_lock"
    /\ pc["recv"] = "unborn"
    /\ pc' = [pc EXCEPT !["recv"] = "recv_lock"]
    /\ holders' = holders \cup {"recv"}
    /\ pong_tx' = "recv"
    /\ UNCHANGED << net_client, conn_ok, wire_out, wire_in, readers, data, chans,
                    pong_rx, pong_q, id, elapsed, last_wait, last_recv, level2_symbol,
                    ping_interval, ping_timeout, pongs_seen, book_in, book_out >>

\* lines 80-82 and 127-128: spawn_recv_loop clones the Session and spawns
\* the thread, which owns pong_send; start returns Ok
StartSpawnRecv ==
    /\ pc["caller"] = "spawn_recv"
    /\ pc' = [pc EXCEPT !["caller"] = "running", !["recv"] = "recv_lock"]
    /\ holders' = holders \cup {"recv"}
    /\ pong_tx' = "recv"
    /\ UNCHANGED << net_client, conn_ok, wire_out, wire_in, readers, data, chans,
                    pong_rx, pong_q, id, elapsed, last_wait, last_recv, level2_symbol,
                    ping_interval, ping_timeout, pongs_seen, book_in, book_out >>

\* ------------------------------------------------------------ the caller, after start
\* the caller drops the Session that start returned
CallerDropSession ==
    /\ pc["caller"] = "running"
    /\ "caller" \in holders
    /\ holders' = holders \ {"caller"}
    /\ UNCHANGED << pc, net_client, conn_ok, wire_out, wire_in, readers, data, chans,
                    pong_tx, pong_rx, pong_q, id, elapsed, last_wait, last_recv,
                    level2_symbol, ping_interval, ping_timeout, pongs_seen, book_in,
                    book_out >>

\* the caller drops the Receiver that start returned
CallerDropReceiver ==
    /\ pc["caller"] = "running"
    /\ \E c \in DOMAIN chans :
          /\ chans[c].rx
          /\ chans' = [chans EXCEPT ![c].rx = FALSE]
    /\ UNCHANGED << pc, net_client, conn_ok, wire_out, wire_in, readers, data, holders,
                    pong_tx, pong_rx, pong_q, id, elapsed, last_wait, last_recv,
                    level2_symbol, ping_interval, ping_timeout, pongs_seen, book_in,
                    book_out >>

\* ------------------------------------------------------------ spawn_ping_loop
\* an id that is never advanced
NextIdStuck(n) == n

\* line 122: id += 1
NextId(n) == n + 1

\* lines 103-105, WebSocket::send: net_client.lock()
PingLock ==
    /\ pc["ping"] = "send_lock"
    /\ id < MaxPings
    /\ CanLock
    /\ net_client' = "ping"
    /\ pc' = [pc EXCEPT !["ping"] = "send_write"]
    /\ UNCHANGED << conn_ok, wire_out, wire_in, readers, data, chans, holders, pong_tx,
                    pong_rx, pong_q, id, elapsed, last_wait, last_recv, level2_symbol,
                    ping_interval, ping_timeout, pongs_seen, book_in, book_out >>

\* lines 105-110: net_client.send(ping), its result dropped (let _ =);
\* send_time = Instant::now(); the first recv_timeout
PingWrite ==
    /\ pc["ping"] = "send_write"
    /\ net_client' = "free"
    /\ wire_out' = IF conn_ok THEN Append(wire_out, ping_string(to_string(id)))
                   ELSE wire_out
    /\ elapsed' = 0
    /\ last_wait' = "none"
    /\ pc' = [pc EXCEPT !["ping"] = "await"]
    /\ UNCHANGED << conn_ok, wire_in, readers, data, chans, holders, pong_tx, pong_rx,
                    pong_q, id, last_recv, level2_symbol, ping_interval, ping_timeout,
                    pongs_seen, book_in, book_out >>

\* a ping thread that takes any Pong for the answer to its ping
PingPongAnyId ==
    /\ pc["ping"] = "await"
    /\ pong_q # << >>
    /\ pong_q' = Tail(pong_q)
    /\ pongs_seen' = Append(pongs_seen, Head(pong_q))
    /\ last_wait' = "Ok"
    /\ pc' = [pc EXCEPT !["ping"] = "sleep"]
    /\ UNCHANGED << net_client, conn_ok, wire_out, wire_in, readers, data, chans,
                    holders, pong_tx, pong_rx, id, elapsed, last_recv, level2_symbol,
                    ping_interval, ping_timeout, book_in, book_out >>

\* lines 114-119: recv_timeout returns Ok(id_recv): on the id of the ping
\* the thread sleeps for the rest of the interval, else it waits again
PingPong ==
    /\ pc["ping"] = "await"
    /\ pong_q # << >>
    /\ pong_q' = Tail(pong_q)
    /\ pongs_seen' = Append(pongs_seen, Head(pong_q))
    /\ last_wait' = "Ok"
    /\ IF Head(pong_q) = to_string(id)
       THEN pc' = [pc EXCEPT !["ping"] = "sleep"]
       ELSE pc' = pc
    /\ UNCHANGED << net_client, conn_ok, wire_out, wire_in, readers, data, chans,
                    holders, pong_tx, pong_rx, id, elapsed, last_recv, level2_symbol,
                    ping_interval, ping_timeout, book_in, book_out >>

\* a ping thread that gives up the wait when recv_timeout runs out and goes
\* on to the next ping
PingTimeoutResends ==
    /\ pc["ping"] = "await"
    /\ pong_q = << >>
    /\ pong_tx # "dropped"
    /\ duration_substract(ping_timeout, elapsed) = 0
    /\ last_wait' = "Timeout"
    /\ id' = id + 1
    /\ pc' = [pc EXCEPT !["ping"] = "send_lock"]
    /\ UNCHANGED << net_client, conn_ok, wire_out, wire_in, readers, data, chans,
                    holders, pong_tx, pong_rx, pong_q, elapsed, last_recv,
                    level2_symbol, ping_interval, ping_timeout, pongs_seen, book_in,
                    book_out >>

\* a ping thread that returns when recv_timeout runs out, dropping pong_recv
PingTimeoutReturns ==
    /\ pc["ping"] = "await"
    /\ pong_q = << >>
    /\ pong_tx # "dropped"
    /\ duration_substract(ping_timeout, elapsed) = 0
    /\ last_wait' = "Timeout"
    /\ pc' = [pc EXCEPT !["ping"] = "exited"]
    /\ holders' = holders \ {"ping"}
    /\ pong_rx' = "dropped"
    /\ UNCHANGED << net_client, conn_ok, wire_out, wire_in, readers, data, chans,
                    pong_tx, pong_q, id, elapsed, last_recv, level2_symbol,
                    ping_interval, ping_timeout, pongs_seen, book_in, book_out >>

\* line 113: recv_timeout returns Err(Timeout): the inner loop goes round and
\* waits again.  A recv_timeout called when send_time.elapsed() was e runs
\* out duration_substract(ping_timeout, e) later, which is when
\* duration_substract(ping_timeout, send_time.elapsed()) has become zero.
PingTimeout ==
    /\ pc["ping"] = "await"
    /\ pong_q = << >>
    /\ pong_tx # "dropped"
    /\ duration_substract(ping_timeout, elapsed) = 0
    /\ last_wait' = "Timeout"
    /\ UNCHANGED << pc, net_client, conn_ok, wire_out, wire_in, readers, data, chans,
                    holders, pong_tx, pong_rx, pong_q, id, elapsed, last_recv,
                    level2_symbol, ping_interval, ping_timeout, pongs_seen, book_in,
                    book_out >>

\* a ping thread that goes on waiting when the pong channel is disconnected
PingDisconnectedWaits ==
    /\ pc["ping"] = "await"
    /\ pong_q = << >>
    /\ pong_tx = "dropped"
    /\ last_wait' = "Disconnected"
    /\ UNCHANGED << pc, net_client, conn_ok, wire_out, wire_in, readers, data, chans,
                    holders, pong_tx, pong_rx, pong_q, id, elapsed, last_recv,
                    level2_symbol, ping_interval, ping_timeout, pongs_seen, book_in,
                    book_out >>

\* line 112: recv_timeout returns Err(Disconnected): pong_send is gone and
\* the channel is empty; the thread returns and drops what it owns
PingDisconnected ==
    /\ pc["ping"] = "await"
    /\ pong_q = << >>
    /\ pong_tx = "dropped"
    /\ last_wait' = "Disconnected"
    /\ pc' = [pc EXCEPT !["ping"] = "exited"]
    /\ holders' = holders \ {"ping"}
    /\ pong_rx' = "dropped"
    /\ UNCHANGED << net_client, conn_ok, wire_out, wire_in, readers, data, chans,
                    pong_tx, pong_q, id, elapsed, last_recv, level2_symbol,
                    ping_interval, ping_timeout, pongs_seen, book_in, book_out >>

\* lines 116-122: thread::sleep(duration_substract(ping_interval, elapsed))
\* is over, which is when the rest of the interval has become zero; break;
\* id += 1
PingWake ==
    /\ pc["ping"] = "sleep"
    /\ duration_substract(ping_interval, elapsed) = 0
    /\ id' = NextId(id)
    /\ pc' = [pc EXCEPT !["ping"] = "send_lock"]
    /\ UNCHANGED << net_client, conn_ok, wire_out, wire_in, readers, data, chans,
                    holders, pong_tx, pong_rx, pong_q, elapsed, last_wait, last_recv,
                    level2_symbol, ping_interval, ping_timeout, pongs_seen, book_in,
                    book_out >>

\* ------------------------------------------------------------ spawn_recv_loop
\* lines 137-140: data_table.get(topic): the channel of the topic, 0 for None
Lookup(topic) == IF topic \in DOMAIN data THEN data[topic] ELSE 0

\* a receive loop that discards a Welcome as it discards an Ack
RecvOutcomeWelcomeDiscarded(m) ==
    IF m.kind = "Err" THEN [do |-> "continue", matched |-> "Err"]
    ELSE IF m.kind = "Panic" THEN [do |-> "panic"]
    ELSE IF m.msg = "Pong"
         THEN IF pong_rx = "dropped" THEN [do |-> "panic"]
              ELSE [do |-> "pong", id |-> m.id]
    ELSE IF m.msg \in {"Ack", "Welcome"} THEN [do |-> "continue", matched |-> m.msg]
    ELSE IF m.msg = "Message"
         THEN LET b == MarketBook_new(m.value)
              IN  IF b.kind # "Ok" THEN [do |-> "panic"]
                  ELSE IF Lookup(b.topic) = 0 THEN [do |-> "panic"]
                  ELSE IF ~chans[Lookup(b.topic)].rx THEN [do |-> "panic"]
                  ELSE [do |-> "book", chan |-> Lookup(b.topic), book |-> b.book]
    ELSE [do |-> "panic"]

\* lines 129-145: what one iteration does with the result m of session.recv()
RecvOutcome(m) ==
    IF m.kind = "Err" THEN [do |-> "continue", matched |-> "Err"]
    ELSE IF m.kind = "Panic" THEN [do |-> "panic"]
    ELSE IF m.msg = "Pong"
         THEN IF pong_rx = "dropped" THEN [do |-> "panic"]
              ELSE [do |-> "pong", id |-> m.id]
    ELSE IF m.msg = "Ack" THEN [do |-> "continue", matched |-> "Ack"]
    ELSE IF m.msg = "Message"
         THEN LET b == MarketBook_new(m.value)
              IN  IF b.kind # "Ok" THEN [do |-> "panic"]
                  ELSE IF Lookup(b.topic) = 0 THEN [do |-> "panic"]
                  ELSE IF ~chans[Lookup(b.topic)].rx THEN [do |-> "panic"]
                  ELSE [do |-> "book", chan |-> Lookup(b.topic), book |-> b.book]
    ELSE [do |-> "panic"]

\* line 129, WebSocket::recv: net_client.lock()
RecvLock ==
    /\ pc["recv"] = "recv_lock"
    /\ CanLock
    /\ net_client' = "recv"
    /\ pc' = [pc EXCEPT !["recv"] = "recv_read"]
    /\ UNCHANGED << conn_ok, wire_out, wire_in, readers, data, chans, holders, pong_tx,
                    pong_rx, pong_q, id, elapsed, last_wait, last_recv, level2_symbol,
                    ping_interval, ping_timeout, pongs_seen, book_in, book_out >>

\* lines 129-145: read() returns with the Mutex held, the guard is dropped,
\* the frame is parsed and the match arm runs; a panic unwinds the thread,
\* dropping its Session clone and pong_send
RecvRead ==
    /\ pc["recv"] = "recv_read"
    /\ \E r \in ReadResults :
          /\ Read("recv", r)
          /\ LET o == RecvOutcome(Session_recv(r))
             IN  /\ pc' = [pc EXCEPT !["recv"] =
                              IF o.do = "panic" THEN "panicked" ELSE "recv_lock"]
                 /\ holders' = IF o.do = "panic" THEN holders \ {"recv"} ELSE holders
                 /\ pong_tx' = IF o.do = "panic" THEN "dropped" ELSE pong_tx
                 /\ pong_q' = IF o.do = "pong" THEN Append(pong_q, o.id) ELSE pong_q
                 /\ chans' = IF o.do = "book"
                             THEN [chans EXCEPT ![o.chan].q = Append(@, o.book)]
                             ELSE chans
                 /\ last_recv' = IF o.do = "continue" THEN o.matched
                                 ELSE IF o.do = "pong" THEN "Pong"
                                 ELSE IF o.do = "book" THEN "Message"
                                 ELSE "panic"
    /\ UNCHANGED << conn_ok, wire_out, data, pong_rx, id, elapsed, last_wait,
                    level2_symbol, ping_interval, ping_timeout, pongs_seen, book_in,
                    book_out >>

\* ------------------------------------------------------------ environment
\* the connection goes down
ConnFail ==
    /\ conn_ok
    /\ conn_ok' = FALSE
    /\ UNCHANGED << pc, net_client, wire_out, wire_in, readers, data, chans, holders,
                    pong_tx, pong_rx, pong_q, id, elapsed, last_wait, last_recv,
                    level2_symbol, ping_interval, ping_timeout, pongs_seen, book_in,
                    book_out >>

\* time passes: send_time.elapsed() grows.  send_time exists from the first
\* ping on, and only the ping thread reads the clock.
Tick ==
    /\ \/ pc["ping"] \in {"await", "sleep"}
       \/ pc["ping"] \in {"send_lock", "send_write"} /\ id > 0
    /\ elapsed < MaxElapsed
    /\ elapsed' = elapsed + 1
    /\ UNCHANGED << pc, net_client, conn_ok, wire_out, wire_in, readers, data, chans,
                    holders, pong_tx, pong_rx, pong_q, id, last_wait, last_recv,
                    level2_symbol, ping_interval, ping_timeout, pongs_seen, book_in,
                    book_out >>

Next ==
    \/ StartConnect
    \/ StartHandshakeLock
    \/ StartHandshakeRead
    \/ StartSpawnPing
    \/ StartSubscribe
    \/ StartSubscribeLock
    \/ StartSubscribeWrite
    \/ StartSpawnRecv
    \/ CallerDropSession
    \/ CallerDropReceiver
    \/ PingLock
    \/ PingWrite
    \/ PingPong
    \/ PingTimeout
    \/ PingDisconnected
    \/ PingWake
    \/ RecvLock
    \/ RecvRead
    \/ ConnFail
    \/ Tick

Spec == Init /\ [][Next]_vars

\* the steps of the ping thread that do not wait for the receive thread
PingStep == PingLock \/ PingWrite \/ PingPong \/ PingDisconnected \/ PingWake

\* a session of one symbol and one ping_timeout: neither has a part in how
\* the ping thread ends
InitLive == Init /\ level2_symbol = "ETHUSDTM" /\ ping_timeout = 1

\* the ping thread is scheduled and its clock runs: a step of the thread
\* that stays possible is taken, and time passes
SpecLive == InitLive /\ [][Next]_vars /\ WF_vars(PingStep) /\ WF_vars(Tick)

\* ------------------------------------------------------------ the decoder alone
\* the levels a side may hold: three well-formed ones, and one whose size is
\* a string
BookLevels ==
    { Level("100.5", 10), Level("101", 5), Level("99.5", 7),
      JArr(<< JStr("100.5"), JStr("10") >>) }

\* the sides of at most MaxLevels levels
BookSides == UNION { [1..n -> BookLevels] : n \in 0..MaxLevels }

\* no session: only a side to decode
InitBook ==
    /\ book_in \in BookSides
    /\ book_out = [kind |-> "none"]
    /\ pc = [t \in Threads |-> "unborn"]
    /\ net_client = "free"
    /\ conn_ok = FALSE
    /\ wire_out = << >>
    /\ wire_in = << >>
    /\ readers = << >>
    /\ data = << >>
    /\ chans = << >>
    /\ holders = {}
    /\ pong_tx = "none"
    /\ pong_rx = "none"
    /\ pong_q = << >>
    /\ id = 0
    /\ elapsed = 0
    /\ last_wait = "none"
    /\ last_recv = "none"
    /\ level2_symbol = "ETHUSDTM"
    /\ ping_interval = 1
    /\ ping_timeout = 1
    /\ pongs_seen = << >>

\* book.rs lines 10-36: get_asks_bids on the side
BookDecode ==
    /\ book_out.kind = "none"
    /\ book_out' = get_asks_bids(JArr(book_in))
    /\ UNCHANGED << pc, net_client, conn_ok, wire_out, wire_in, readers, data, chans,
                    holders, pong_tx, pong_rx, pong_q, id, elapsed, last_wait,
                    last_recv, level2_symbol, ping_interval, ping_timeout, pongs_seen,
                    book_in >>

NextBook == BookDecode

SpecBook == InitBook /\ [][NextBook]_vars

\* ------------------------------------------------------------ properties
\* the frames the receive thread read, by their place in wire_in
DemuxRead == {i \in DOMAIN wire_in : readers[i] = "recv"}

\* the result of Session::recv on a frame that was read
Parsed(f) == Session_recv(ReadOk(f))

IsData(f) == Parsed(f).kind = "Ok" /\ Parsed(f).msg = "Message"

Pings == SelectSeq(wire_out, LAMBDA f : f.type = "ping")

RecvRunning == pc["recv"] \in {"recv_lock", "recv_read"}

\* C1: once recv_timeout has timed out after a ping (no pong with the id of
\* the ping came within ping_timeout), the ping thread has stopped waiting
\* and the session has failed: neither loop runs on.
HeartbeatTimeoutTerminates ==
    last_wait = "Timeout" => pc["ping"] = "exited" /\ ~RecvRunning

\* C2: once the receive thread has processed a Data frame that decodes and
\* whose topic is not in the registry, and both loops have stopped, every
\* channel of the registry is closed.
UnregisteredData(f) ==
    /\ IsData(f)
    /\ MarketBook_new(f).kind = "Ok"
    /\ MarketBook_new(f).topic \notin DOMAIN data

UnregisteredTopicClosesChannels ==
    (\E i \in DemuxRead : UnregisteredData(wire_in[i]))
        => /\ ~RecvRunning
           /\ pc["ping"] = "exited" => \A c \in DOMAIN chans : Closed(c)

\* C3: a frame for which Session::recv returns a RecvError is the last frame
\* the receive thread reads, the thread does not run on after an error, and
\* once both loops have stopped every channel of the registry is closed.
RecvErrorTerminates ==
    /\ \A i \in DemuxRead : Parsed(wire_in[i]).kind = "Err" => i = Len(wire_in)
    /\ last_recv = "Err" => ~RecvRunning
    /\ last_recv = "Err" /\ pc["ping"] = "exited" => \A c \in DOMAIN chans : Closed(c)

\* C4: for every topic of the registry whose Receiver is alive, the books
\* sent on its channel are as many as the Data frames of that topic the
\* receive thread read whose asks and bids are arrays of well-formed levels,
\* and a channel gets no book of another topic.
WellFormedSide(side) ==
    side.t = "arr" /\ \A i \in 1..Len(side.v) : LevelOk(side.v[i])

WellFormedData(f, topic) ==
    /\ IsData(f)
    /\ f.topic.t = "str" /\ f.topic.v = topic
    /\ f.data.t = "obj"
    /\ WellFormedSide(f.data.asks) /\ WellFormedSide(f.data.bids)

DemuxRouting ==
    \A topic \in DOMAIN data :
        chans[data[topic]].rx =>
            Len(chans[data[topic]].q) =
                Cardinality({i \in DemuxRead : WellFormedData(wire_in[i], topic)})

\* C5: at most one thread is in WebSocket::recv; the receive thread exists
\* only after the handshake read of start is over; the first frame is read by
\* the caller and every later frame by the receive thread.
SingleReader ==
    /\ Cardinality({t \in Threads :
                       pc[t] \in {"hs_lock", "hs_read", "recv_lock", "recv_read"}}) <= 1
    /\ pc["recv"] # "unborn" => pc["caller"] \notin {"start", "hs_lock", "hs_read"}
    /\ \A i \in DOMAIN readers : readers[i] = IF i = 1 THEN "caller" ELSE "recv"

\* the receive thread is reading again after the caller read the Welcome and
\* the thread read a frame
SingleReaderWitness ==
    /\ pc["recv"] = "recv_read"
    /\ Len(wire_in) >= 2
    /\ readers[1] = "caller" /\ readers[2] = "recv"

\* C6: at most one thread is writing a frame to the connection, and the
\* thread that writes holds the Mutex.
ExclusiveSend ==
    /\ Cardinality({t \in Threads : pc[t] \in {"send_write", "sub_write"}}) <= 1
    /\ \A t \in Threads : pc[t] \in {"send_write", "sub_write"} => net_client = t

\* the ping thread writes its ping while the caller waits to send the
\* subscribe frame
ExclusiveSendWitness ==
    /\ pc["ping"] = "send_write"
    /\ pc["caller"] = "sub_lock"

\* C7: whenever a thread waits for the Mutex in order to send, the holder is
\* a thread that is writing a frame, never the receive thread in read().
WriteLockHeldOnlyBySends ==
    \A t \in Threads :
        pc[t] \in {"send_lock", "sub_lock"} /\ net_client # "free"
            => pc[net_client] \in {"send_write", "sub_write"}

\* C8: a frame the receive thread read that is JSON and has no type, or a
\* type that is none of welcome, ack, pong and message, parses to an Err
\* value (not a panic of the parsing thread), and the receive thread does
\* not run on after it.
UnknownType(f) ==
    /\ f.text /\ f.json
    /\ \/ f.type.t = "absent"
       \/ f.type.t = "str" /\ f.type.v \notin {"welcome", "ack", "pong", "message"}

UnknownTypeIsDecodeFailure ==
    \A i \in DemuxRead :
        UnknownType(wire_in[i]) =>
            /\ from_string(wire_in[i]).kind = "Err"
            /\ ~RecvRunning

\* C9: the k-th ping written to the connection carries the decimal string of
\* k-1 as its id.
PingIdsCountUp ==
    \A k \in 1..Len(Pings) : Pings[k].id.t = "str" /\ Pings[k].id.v = ToString(k - 1)

\* two pings were written
PingIdsCountUpWitness == Len(Pings) >= 2

\* C10: when the handshake fails (the first frame is not a Welcome, or reading
\* or parsing it fails), start has returned an Err, no thread was spawned and
\* no subscribe frame was written.
HandshakeFailed ==
    \/ wire_in = << >> /\ pc["caller"] = "panicked"
    \/ /\ wire_in # << >>
       /\ ~(Parsed(wire_in[1]).kind = "Ok" /\ Parsed(wire_in[1]).msg = "Welcome")

HandshakeFailureReturnsErr ==
    HandshakeFailed =>
        /\ pc["caller"] = "err"
        /\ pc["ping"] = "unborn" /\ pc["recv"] = "unborn"
        /\ \A k \in DOMAIN wire_out : wire_out[k].type # "subscribe"

\* the pings the ping thread has passed to session.send: one per cycle begun,
\* the cycle of id included once the thread is past line 105
PingsAttempted ==
    id + (IF pc["ping"] \in {"await", "sleep", "exited"} THEN 1 ELSE 0)

\* a ping was passed to session.send and not written: send returned an Err
PingSendFailed == PingsAttempted > Len(Pings)

\* C11: once the send of a ping has failed, the ping thread has ended: it
\* neither waits for a pong, nor sleeps, nor sends another ping, and the
\* receive loop does not run on.
PingSendFailureEndsLoop ==
    PingSendFailed => pc["ping"] = "exited" /\ ~RecvRunning

\* every level of the side given to the decoder is well-formed
AllLevelsOk == \A i \in 1..Len(book_in) : LevelOk(book_in[i])

\* the (price, size) of the i-th level of the side given to the decoder
LevelAt(i) == [price |-> ParseF64(book_in[i].v[1].v), size |-> book_in[i].v[2].v]

\* C12: a side of n <= 5 well-formed levels decodes to a ladder of 5 slots;
\* slot i is the i-th level of the side for i <= n, in the order given, and
\* the slots after the n-th are the sentinel (0.0, 0).
ShortSideDecodes ==
    book_out.kind # "none" /\ Len(book_in) <= 5 /\ AllLevelsOk
        => /\ book_out.kind = "Ok"
           /\ DOMAIN book_out.val = 1..5
           /\ \A i \in 1..5 :
                 book_out.val[i] = IF i <= Len(book_in) THEN LevelAt(i)
                                   ELSE [price |-> 0, size |-> 0]

\* two levels, the dearer one first, were decoded: three sentinels follow
ShortSideDecodesWitness ==
    /\ book_out.kind = "Ok"
    /\ Len(book_in) = 2
    /\ LevelAt(1).price > LevelAt(2).price
    /\ book_out.val[3] = [price |-> 0, size |-> 0]

\* C13: a side of more than 5 well-formed levels decodes, and the ladder
\* holds its first 5 levels.
LongSideTruncated ==
    book_out.kind # "none" /\ Len(book_in) > 5 /\ AllLevelsOk
        => /\ book_out.kind = "Ok"
           /\ \A i \in 1..5 : book_out.val[i] = LevelAt(i)

\* the frame is one the receive thread decodes as a Pong
IsPong(f) == Parsed(f).kind = "Ok" /\ Parsed(f).msg = "Pong"

\* the ids of the Pong frames the receive thread has read, in arrival order
PongsRead ==
    LET idx == SelectSeq([i \in 1..Len(wire_in) |-> i],
                         LAMBDA i : i \in DemuxRead /\ IsPong(wire_in[i]))
    IN  [k \in 1..Len(idx) |-> Parsed(wire_in[idx[k]]).id]

\* C14: handing a Pong to the ping thread never holds the receive thread up:
\* every Pong it has read is in the channel or was taken from it, and when
\* a Pong is the last frame read the receive thread is at a later read,
\* whatever the ping thread is doing.
PongHandoffNeverBlocks ==
    /\ Len(PongsRead) = Len(pongs_seen) + Len(pong_q)
    /\ \A i \in DemuxRead :
          IsPong(wire_in[i]) /\ i = Len(wire_in)
              => RecvRunning

\* two Pongs wait in the channel, the ping thread is blocked on its send and
\* the receive thread is in its next read
PongHandoffNeverBlocksWitness ==
    /\ Len(pong_q) = 2
    /\ pc["ping"] = "send_lock"
    /\ pc["recv"] = "recv_read"

\* the ladder of a side as the specification describes it: its first 5
\* levels in the order given, then sentinels
Ladder(side) ==
    [i \in 1..5 |->
        IF i <= Len(side.v)
        THEN [price |-> ParseF64(side.v[i].v[1].v), size |-> side.v[i].v[2].v]
        ELSE [price |-> 0, size |-> 0]]

TopBook(f) == [asks |-> Ladder(f.data.asks), bids |-> Ladder(f.data.bids)]

\* the TopBooks of the well-formed Data frames of the topic the receive
\* thread has read, in arrival order
BooksRead(topic) ==
    LET idx == SelectSeq([i \in 1..Len(wire_in) |-> i],
                         LAMBDA i : i \in DemuxRead
                                    /\ WellFormedData(wire_in[i], topic))
    IN  [k \in 1..Len(idx) |-> TopBook(wire_in[idx[k]])]

\* C15: frames are processed in arrival order: the books sent on the channel
\* of a topic are the TopBooks of the Data frames of that topic in the order
\* the frames arrived, and the Pong ids the ping thread is given are the ids
\* of the Pong frames in the order they arrived.
ArrivalOrder ==
    /\ \A topic \in DOMAIN data :
          chans[data[topic]].rx => chans[data[topic]].q = BooksRead(topic)
    /\ pongs_seen \o pong_q = PongsRead

\* the number of Pongs of seq that matched the awaited id, the awaited id
\* being e at the start and one more after each match
RECURSIVE MatchedFrom(_, _)
MatchedFrom(seq, e) ==
    IF seq = << >> THEN e
    ELSE MatchedFrom(Tail(seq), IF Head(seq) = to_string(e) THEN e + 1 ELSE e)

Matched == MatchedFrom(pongs_seen, 0)

\* C16: at most one ping is unanswered: the pings sent, and the sends tried,
\* are never more than the matching Pongs taken from the channel plus one,
\* and ping n+1 is on the wire only if a Pong with id n was taken.
OnePingInFlight ==
    /\ Len(Pings) <= Matched + 1
    /\ PingsAttempted <= Matched + 1
    /\ \A k \in 2..Len(Pings) :
          \E j \in 1..Len(pongs_seen) : pongs_seen[j] = to_string(k - 2)

\* the second ping is on the wire after one matching Pong
OnePingInFlightWitness == Len(Pings) = 2 /\ Matched = 1

\* C17: when the waiting ping thread takes a Pong whose id is not the id of
\* the ping just sent, it goes on waiting, its id stays and no frame is
\* written; it leaves the wait for the next cycle only on a Pong with the
\* id of the ping.
MismatchedPongIgnored ==
    [][/\ pc["ping"] = "await" /\ pongs_seen' # pongs_seen
          => /\ id' = id
             /\ wire_out' = wire_out
             /\ pc'["ping"] = IF pongs_seen'[Len(pongs_seen')] = to_string(id)
                              THEN "sleep" ELSE "await"
       /\ pc["ping"] = "await" /\ pc'["ping"] = "sleep"
          => pongs_seen' = Append(pongs_seen, to_string(id))]_vars

\* the ping thread took a Pong with another id in this wait and waits on
MismatchedPongIgnoredWitness ==
    /\ pc["ping"] = "await"
    /\ last_wait = "Ok"
    /\ pongs_seen # << >>
    /\ pongs_seen[Len(pongs_seen)] # to_string(id)

\* the frame is one the receive thread decodes as a Welcome
IsWelcome(f) == Parsed(f).kind = "Ok" /\ Parsed(f).msg = "Welcome"

\* C18: a Welcome read by the receive thread ends the thread: the step that
\* reads it leaves the thread terminated with no book sent and no Pong
\* handed on, and a terminated receive thread reads no frame again.
LateWelcomeIsFatal ==
    [][/\ /\ Len(wire_in') > Len(wire_in)
          /\ readers'[Len(wire_in')] = "recv"
          /\ IsWelcome(wire_in'[Len(wire_in')])
          => pc'["recv"] = "panicked" /\ chans' = chans /\ pong_q' = pong_q
       /\ pc["recv"] = "panicked"
          => pc'["recv"] = "panicked" /\ wire_in' = wire_in]_vars

\* the last frame read is a Welcome the receive thread read, and the thread
\* has ended
LateWelcomeIsFatalWitness ==
    /\ Len(wire_in) >= 2
    /\ Len(wire_in) \in DemuxRead
    /\ IsWelcome(wire_in[Len(wire_in)])
    /\ pc["recv"] = "panicked"

\* C19: the table of subscriptions only grows: it changes only in the
\* insert of subscribe_level2, which keeps every entry there was; no step of
\* the receive thread or the ping thread changes it; each topic has one
\* channel, and no two topics share one.
RegistryGrowsOnly ==
    /\ [](\A t1, t2 \in DOMAIN data :
             /\ data[t1] \in 1..Len(chans)
             /\ data[t1] = data[t2] => t1 = t2)
    /\ [][data' # data
             => /\ pc["caller"] = "subscribe" /\ pc'["caller"] = "sub_lock"
                /\ pc'["ping"] = pc["ping"] /\ pc'["recv"] = pc["recv"]
                /\ \A t \in DOMAIN data : t \in DOMAIN data' /\ data'[t] = data[t]]_vars

\* the topic is in the table after the receive thread handled an Ack and a
\* second frame, and the ping thread took a Pong
RegistryGrowsOnlyWitness ==
    /\ DOMAIN data # {}
    /\ \E i \in DemuxRead :
          Parsed(wire_in[i]).kind = "Ok" /\ Parsed(wire_in[i]).msg = "Ack"
    /\ Cardinality(DemuxRead) >= 2
    /\ pongs_seen # << >>

\* C20: the sleep after a matching Pong lasts until ping_interval has passed
\* since send_time, and not at all when it already has: the thread leaves
\* the sleep, and a ping after the first is written, only when the time
\* since the send_time of the ping before is at least ping_interval.
PingCadence ==
    [][/\ pc["ping"] = "sleep" /\ pc'["ping"] # "sleep"
          => elapsed >= ping_interval /\ id' = id + 1
       /\ Len(Pings') > Len(Pings) /\ Len(Pings) >= 1
          => elapsed >= ping_interval]_vars

\* the second ping has just been written, with the longer interval
PingCadenceWitness ==
    /\ Len(Pings) = 2
    /\ ping_interval = 2
    /\ elapsed = 0
    /\ pc["ping"] = "await"

\* the topic start subscribes to, and the frame that asks for it
SubscribedTopic == level2_subscription_string(level2_symbol)[2]

SubscribeFrame == level2_subscription_string(level2_symbol)[1]

\* C21: the topic is in the table before the subscribe frame is on the wire,
\* the receive thread exists only after subscribe_level2 has returned, and
\* so the topic is in the table whenever the receive thread has read a Data
\* frame of the subscribed topic.
SubscribedBeforeDemux ==
    /\ pc["caller"] \in {"sub_lock", "sub_write"} => SubscribedTopic \in DOMAIN data
    /\ (\E k \in 1..Len(wire_out) : wire_out[k] = SubscribeFrame)
          => SubscribedTopic \in DOMAIN data
    /\ pc["recv"] # "unborn"
          => /\ SubscribedTopic \in DOMAIN data
             /\ pc["caller"] \notin {"start", "hs_lock", "hs_read", "spawn_ping",
                                     "subscribe", "sub_lock", "sub_write",
                                     "spawn_recv"}
    /\ \A i \in DemuxRead :
          IsData(wire_in[i]) /\ wire_in[i].topic = JStr(SubscribedTopic)
              => Lookup(SubscribedTopic) # 0

\* the receive thread read a Data frame of the subscribed topic and its
\* book is on the channel of the topic
SubscribedBeforeDemuxWitness ==
    /\ \E i \in DemuxRead :
          IsData(wire_in[i]) /\ wire_in[i].topic = JStr(SubscribedTopic)
    /\ SubscribedTopic \in DOMAIN data
    /\ chans[data[SubscribedTopic]].q # << >>

====
